---- MODULE Spec2Model ----
(***************************************************************************)
(* Model of the timesheet MCP server (src/src/timesheet_mcp/main.py): the  *)
(* call_tool handler, the InsiderAPIService it builds on every call, and   *)
(* the HTTP requests the service issues against the upstream REST API.     *)
(*                                                                         *)
(* Conventions                                                             *)
(*  - a string the code inspects character by character (the user id that  *)
(*    int() parses) is a sequence of one-character strings;                *)
(*  - a message built by an f-string is the sequence of its pieces, so     *)
(*    "the message contains X" is "X is one of the pieces";                *)
(*  - hours and hourRate are held in tenths (5 is 0.5, 25 is 2.5), so that *)
(*    the float bounds 0.5 and 8 and a fractional hourRate are integers;   *)
(*  - a JSON object is a record, None/null is the string "null".           *)
(***************************************************************************)
EXTENDS Integers, Sequences, FiniteSets, TLC

VARIABLES
    env,          \* the three credentials serve() read from the environment
    pc,           \* per invocation: idle, executor, returned, delivered
    name,         \* per invocation: the tool name passed to call_tool
    arguments,    \* per invocation: the argument mapping passed to call_tool
    pos,          \* per invocation: number of loop iterations log_time began
    result,       \* per invocation: log_time's local list `result`
    http,         \* per invocation: the HTTP exchanges made, in order
    ret,          \* per invocation: what the handler returned or raised
    delivered,    \* per invocation: the CallToolResult the client received
    now_year      \* per invocation of list_invalid_days: the clock's year at the call

vars == <<env, pc, name, arguments, pos, result, http, ret, delivered, now_year>>

-----------------------------------------------------------------------------
(* Bounds of the model *)

MaxDates == 3

-----------------------------------------------------------------------------
(* Configuration constants, main.py:15-18 *)

AUTH_TOKEN_ENV == "INSIDER_AUTH_TOKEN"
USER_ID_ENV == "INSIDER_USER_ID"
EMP_CODE_ENV == "INSIDER_EMP_CODE"

NULL == "null"

(* Invocations: call_tool frames that may be live.  A session that sends    *)
(* one request at a time uses the first; a second request sent before the   *)
(* first is answered runs in the other (the handler awaits the executor,    *)
(* main.py:345-347, 368-370, so the event loop takes the next request).     *)
Invs == {"a", "b"}
OneAtATime == {"a"}

-----------------------------------------------------------------------------
(* Inputs *)

Tokens == {"", "test_token"}
UserIds == {<<>>, <<"1", "8", "6">>, <<"x", "7">>}
EmpCodes == {"", "test.user"}
CurrentYears == {2025, 2026}

ToolNames == {"list_projects", "log_time_project", "list_invalid_days", "unknown_tool"}

Dates == {"2025-05-29", "2025-05-30"}
SeqsUpTo(S, n) == UNION {[1..k -> S] : k \in 0..n}
LogDatesInputs == SeqsUpTo(Dates, MaxDates)

ProjectIds == {10522, 7}
HoursInputs == {4, 5, 80, 81}
HourRateInputs == {10, 25, 40, 50}
ActivityInputs == {1, 2, 3}
CommentInputs == {"", "Working on feature X"}

LogTimeFull ==
    [projectId : ProjectIds, hours : HoursInputs, logDates : LogDatesInputs,
     hourRate : HourRateInputs, activity : ActivityInputs, comment : CommentInputs]
LogTimeNoDates ==
    [projectId : ProjectIds, hours : HoursInputs,
     hourRate : HourRateInputs, activity : ActivityInputs, comment : CommentInputs]
LogTimeArguments == LogTimeFull \cup LogTimeNoDates

YearInputs == {2019, 2020, 2024, 2025, 2027, 2028}
MonthInputs == 0..13
InvalidDaysArguments == [year : YearInputs, month : MonthInputs]

EmptyArguments == [x \in {} |-> NULL]

ArgumentsFor(n) ==
    CASE n = "log_time_project" -> LogTimeArguments \cup {EmptyArguments}
      [] n = "list_invalid_days" -> InvalidDaysArguments \cup {EmptyArguments}
      [] OTHER -> {EmptyArguments, [year |-> 2024, month |-> 2]}

-----------------------------------------------------------------------------
(* Generic helpers *)

Range(s) == {s[k] : k \in DOMAIN s}
Has(d, key) == key \in DOMAIN d

(* An exception is its class (with the classes it derives from that the     *)
(* code's except clauses name) and str(e).                                  *)
Exc(type, msg) == [type |-> type, msg |-> msg]
IsException(e) == e.type \in {"ValueError", "ValidationError", "RuntimeError", "KeyError",
                              "Exception", "HTTPError", "ConnectionError", "JSONDecodeError"}

-----------------------------------------------------------------------------
(* InsiderAPIService.__init__, main.py:90-108: the first missing credential *)
(* raises; the later ones are not looked at.                                *)

(* a variant that does not check the employee code *)
InsiderAPIService_init_no_emp_code(auth_token, user_id, emp_code) ==
    IF auth_token = ""
    THEN [ok |-> FALSE,
          exc |-> Exc("ValueError",
                      <<"Auth token not provided (", AUTH_TOKEN_ENV, " environment variable)">>)]
    ELSE IF user_id = <<>>
    THEN [ok |-> FALSE,
          exc |-> Exc("ValueError",
                      <<"User ID not provided (", USER_ID_ENV, " environment variable)">>)]
    ELSE [ok |-> TRUE, exc |-> Exc("", <<>>)]

InsiderAPIService_init(auth_token, user_id, emp_code) ==
    IF auth_token = ""
    THEN [ok |-> FALSE,
          exc |-> Exc("ValueError",
                      <<"Auth token not provided (", AUTH_TOKEN_ENV, " environment variable)">>)]
    ELSE IF user_id = <<>>
    THEN [ok |-> FALSE,
          exc |-> Exc("ValueError",
                      <<"User ID not provided (", USER_ID_ENV, " environment variable)">>)]
    ELSE IF emp_code = ""
    THEN [ok |-> FALSE,
          exc |-> Exc("ValueError",
                      <<"Employee code not provided (", EMP_CODE_ENV, " environment variable)">>)]
    ELSE [ok |-> TRUE, exc |-> Exc("", <<>>)]

(* The service object: its three attributes, main.py:91-93 *)
Service(e) == [auth_token |-> e.token, user_id |-> e.userId, emp_code |-> e.empCode]

(* serve()'s own check of the environment, main.py:268-280: the list it     *)
(* logs at startup.                                                         *)
missing_vars(e) ==
    (IF e.token = "" THEN <<AUTH_TOKEN_ENV>> ELSE <<>>)
    \o (IF e.userId = <<>> THEN <<USER_ID_ENV>> ELSE <<>>)
    \o (IF e.empCode = "" THEN <<EMP_CODE_ENV>> ELSE <<>>)

(* _get_auth_headers, main.py:110-116 *)
get_auth_headers(svc) ==
    [Authorization |-> <<"Bearer ", svc.auth_token>>,
     ContentType |-> "application/json",
     UserAgent |-> "MCP-Client/1.0",
     Accept |-> "application/json, text/plain, */*"]

(* int(self.user_id), main.py:157: decimal digits give the number, anything *)
(* else raises ValueError.                                                  *)
Digits == <<"0", "1", "2", "3", "4", "5", "6", "7", "8", "9">>
IsDigit(c) == \E d \in DOMAIN Digits : Digits[d] = c
DigitValue(c) == (CHOOSE d \in DOMAIN Digits : Digits[d] = c) - 1
IsNumeric(s) == Len(s) > 0 /\ \A k \in DOMAIN s : IsDigit(s[k])
RECURSIVE IntOf(_)
IntOf(s) ==
    IF s = <<>> THEN 0
    ELSE 10 * IntOf(SubSeq(s, 1, Len(s) - 1)) + DigitValue(s[Len(s)])
IntError(s) == Exc("ValueError", <<"invalid literal for int() with base 10: ">> \o s)

-----------------------------------------------------------------------------
(* LogTimeInput, main.py:45-58.  The declared constraints are: projectId,   *)
(* hours and logDates are required; hours has ge=0.5 and le=8; hourRate and *)
(* activity are int (a number with a fractional part is not an int) and     *)
(* default to 1; comment defaults to "".  The validators of lines 60-80 are *)
(* commented out, so nothing else is checked.  The result names the fields  *)
(* that failed, in declaration order.                                       *)

IsIntegral(tenths) == tenths % 10 = 0

(* a variant of the hours field without its le=8 *)
LogTimeInput_errors_no_le(args) ==
    (IF ~Has(args, "projectId") THEN <<"projectId", "Field required">> ELSE <<>>)
    \o (IF ~Has(args, "hours") THEN <<"hours", "Field required">>
        ELSE IF args.hours < 5
             THEN <<"hours", "Input should be greater than or equal to 0.5">>
        ELSE <<>>)
    \o (IF ~Has(args, "logDates") THEN <<"logDates", "Field required">> ELSE <<>>)
    \o (IF Has(args, "hourRate") /\ ~IsIntegral(args.hourRate)
        THEN <<"hourRate", "Input should be a valid integer">> ELSE <<>>)

LogTimeInput_errors(args) ==
    (IF ~Has(args, "projectId") THEN <<"projectId", "Field required">> ELSE <<>>)
    \o (IF ~Has(args, "hours") THEN <<"hours", "Field required">>
        ELSE IF args.hours < 5
             THEN <<"hours", "Input should be greater than or equal to 0.5">>
        ELSE IF args.hours > 80
             THEN <<"hours", "Input should be less than or equal to 8">>
        ELSE <<>>)
    \o (IF ~Has(args, "logDates") THEN <<"logDates", "Field required">> ELSE <<>>)
    \o (IF Has(args, "hourRate") /\ ~IsIntegral(args.hourRate)
        THEN <<"hourRate", "Input should be a valid integer">> ELSE <<>>)

LogTimeInput_value(args) ==
    [projectId |-> args.projectId,
     hours |-> args.hours,
     logDates |-> args.logDates,
     hourRate |-> IF Has(args, "hourRate") THEN args.hourRate \div 10 ELSE 1,
     activity |-> IF Has(args, "activity") THEN args.activity ELSE 1,
     comment |-> IF Has(args, "comment") THEN args.comment ELSE ""]

ValidationError(model, errors) ==
    Exc("ValidationError", <<"validation error for ", model>> \o errors)

(* ListInvalidDaysInput, main.py:32-42: month has ge=1 and le=12, year is   *)
(* checked by validate_year against 2020 and the current year plus one.     *)
ListInvalidDaysInput_errors(args, current_year) ==
    (IF ~Has(args, "year") THEN <<"year", "Field required">>
     ELSE IF args.year < 2020 \/ args.year > current_year + 1
          THEN <<"year", "Value error, Year must be between 2020 and ",
                 ToString(current_year + 1)>>
     ELSE <<>>)
    \o (IF ~Has(args, "month") THEN <<"month", "Field required">>
        ELSE IF args.month < 1
             THEN <<"month", "Input should be greater than or equal to 1">>
        ELSE IF args.month > 12
             THEN <<"month", "Input should be less than or equal to 12">>
        ELSE <<>>)

-----------------------------------------------------------------------------
(* The upstream: what requests.get / requests.post can come back with.      *)
(*   ok         a 2xx response                                              *)
(*   status     a non-2xx response; raise_for_status raises HTTPError that  *)
(*              carries the response                                        *)
(*   transport  a RequestException with no response (connection refused)    *)
(*   other      an exception that is no RequestException (what the test     *)
(*              test_log_time_project_api_error injects)                    *)
(* A response body is its raw text and, when the text is JSON, what it      *)
(* parses to: an object with or without a `message` field, or a non-object. *)

BodyMessage == [text |-> "{\"message\": \"server down\"}", json |-> "object",
                message |-> "server down", repr |-> "{'message': 'server down'}"]
BodyNoMessage == [text |-> "{\"code\": 17}", json |-> "object",
                  message |-> NULL, repr |-> "{'code': 17}"]
BodyArray == [text |-> "[\"down\"]", json |-> "array",
              message |-> NULL, repr |-> "['down']"]
BodyText == [text |-> "Bad Gateway", json |-> "none",
             message |-> NULL, repr |-> NULL]
ErrorBodies == {BodyMessage, BodyNoMessage, BodyArray, BodyText}

FailureOutcomes ==
    [kind : {"status"}, status : {500}, what : {"500 Server Error"}, body : ErrorBodies]
    \cup [kind : {"transport"}, status : {0}, what : {"Connection refused"}, body : {BodyText}]
    \cup [kind : {"other"}, status : {0}, what : {"API Error"}, body : {BodyText}]
OkOutcome == [kind |-> "ok", status |-> 200, what |-> "OK", body |-> BodyText]
PostOutcomes == {OkOutcome} \cup FailureOutcomes

(* The exception a failed exchange raises in the service: requests.post /   *)
(* requests.get themselves, or response.raise_for_status().                 *)
RaisedBy(o) ==
    CASE o.kind = "status" -> Exc("HTTPError", <<o.what>>)
      [] o.kind = "transport" -> Exc("ConnectionError", <<o.what>>)
      [] OTHER -> Exc("Exception", <<o.what>>)
IsRequestException(o) == o.kind \in {"status", "transport"}

(* a variant that never looks into the body of the response *)
error_detail_raw_body(o) ==
    IF o.kind = "status" THEN o.body.text ELSE o.what

(* The except clause of the three service methods, main.py:137-148,         *)
(* 180-191, 243-254: str(e), replaced when e carries a response by the      *)
(* body's `message` field, by str() of the parsed body when it is an object *)
(* without one, and by the raw text when the body does not parse or the     *)
(* .get fails (the bare except).                                            *)
error_detail(o) ==
    IF o.kind = "status"
    THEN IF o.body.json = "object"
         THEN IF o.body.message # NULL THEN o.body.message ELSE o.body.repr
         ELSE o.body.text
    ELSE o.what

-----------------------------------------------------------------------------
(* call_tool, main.py:305-416 *)

NoExc == Exc("", <<>>)
NoContent == [none |-> TRUE]
NoRet == [raised |-> FALSE, exc |-> NoExc, content |-> NoContent]
NoResult == [isError |-> FALSE, content |-> NoContent]

Returns(content) == [raised |-> FALSE, exc |-> NoExc, content |-> content]
Raises(e) == [raised |-> TRUE, exc |-> e, content |-> NoContent]

(* a variant that catches RuntimeError only *)
call_tool_except_runtime_only(e) ==
    IF e.type = "RuntimeError" THEN Returns([error |-> e.msg]) ELSE Raises(e)

(* except Exception as e, main.py:413-416: every exception becomes the      *)
(* returned payload {"error": str(e)}.                                      *)
call_tool_except(e) ==
    IF IsException(e) THEN Returns([error |-> e.msg]) ELSE Raises(e)

(* The handler up to its first await, main.py:309-347, 362-373, 409-411:    *)
(* the service is built (credentials), then the tool name is looked up,     *)
(* then the arguments are validated.  The result is the exception raised,   *)
(* or none when the handler reached run_in_executor.                        *)
(* a variant whose chain of elif has no final else *)
call_tool_prefix_no_else(e, current_year, n, args) ==
    LET init == InsiderAPIService_init(e.token, e.userId, e.empCode) IN
    IF ~init.ok
    THEN Exc("RuntimeError", <<"Service initialization failed: ">> \o init.exc.msg)
    ELSE IF n = "log_time_project"
    THEN IF LogTimeInput_errors(args) # <<>>
         THEN ValidationError("LogTimeInput", LogTimeInput_errors(args))
         ELSE NoExc
    ELSE IF n = "list_invalid_days"
    THEN IF ListInvalidDaysInput_errors(args, current_year) # <<>>
         THEN ValidationError("ListInvalidDaysInput",
                              ListInvalidDaysInput_errors(args, current_year))
         ELSE NoExc
    ELSE NoExc

call_tool_prefix(e, current_year, n, args) ==
    LET init == InsiderAPIService_init(e.token, e.userId, e.empCode) IN
    IF ~init.ok
    THEN Exc("RuntimeError", <<"Service initialization failed: ">> \o init.exc.msg)
    ELSE IF n = "list_projects" THEN NoExc
    ELSE IF n = "log_time_project"
    THEN IF LogTimeInput_errors(args) # <<>>
         THEN ValidationError("LogTimeInput", LogTimeInput_errors(args))
         ELSE NoExc
    ELSE IF n = "list_invalid_days"
    THEN IF ListInvalidDaysInput_errors(args, current_year) # <<>>
         THEN ValidationError("ListInvalidDaysInput",
                              ListInvalidDaysInput_errors(args, current_year))
         ELSE NoExc
    ELSE Exc("ValueError", <<"Unknown tool", ": ", n>>)

(* The handler is entered with a tool name and an argument mapping;         *)
(* current_year is datetime.datetime.now().year, which validate_year reads  *)
(* while the arguments are validated (main.py:39).  It is kept in now_year  *)
(* for the one tool whose validation can read it.                           *)
call_tool_from(i, requests) ==
    /\ pc[i] = "idle"
    /\ \E request \in requests :
       LET n == request.name
           args == request.arguments
           current_year == request.current_year
       IN
       /\ name' = [name EXCEPT ![i] = n]
       /\ arguments' = [arguments EXCEPT ![i] = args]
       /\ now_year' = [now_year EXCEPT ![i] =
                         IF n = "list_invalid_days" THEN current_year ELSE 0]
       /\ LET raised == call_tool_prefix(env, current_year, n, args) IN
          IF raised = NoExc
          THEN /\ pc' = [pc EXCEPT ![i] = "executor"]
               /\ ret' = [ret EXCEPT ![i] = NoRet]
          ELSE /\ pc' = [pc EXCEPT ![i] = "returned"]
               /\ ret' = [ret EXCEPT ![i] = call_tool_except(raised)]
    /\ UNCHANGED <<env, pos, result, http, delivered>>

Requests ==
    UNION {[name : {n}, arguments : ArgumentsFor(n), current_year : CurrentYears] :
             n \in ToolNames}

call_tool(i) == call_tool_from(i, Requests)

-----------------------------------------------------------------------------
(* InsiderAPIService.log_time, main.py:150-192, run by the executor; one    *)
(* action is one iteration of its for loop.                                 *)

API_BASE_URL == "https://insiderapi.saigontechnology.vn/api"

(* the date the iteration that follows p completed iterations works on *)
log_time_date(inp, p) == inp.logDates[p + 1]

(* a variant that sends the field's default instead of the request's value *)
log_time_payload_default_rate(svc, inp, date) ==
    [userId |-> IntOf(svc.user_id),
     empCode |-> svc.emp_code,
     logDate |-> date,
     hours |-> inp.hours,
     hourRate |-> 1,
     activity |-> inp.activity,
     projectId |-> inp.projectId,
     inquiryId |-> NULL,
     milestoneId |-> NULL,
     comment |-> inp.comment]

(* main.py:156-167 *)
log_time_payload(svc, inp, date) ==
    [userId |-> IntOf(svc.user_id),
     empCode |-> svc.emp_code,
     logDate |-> date,
     hours |-> inp.hours,
     hourRate |-> inp.hourRate,
     activity |-> inp.activity,
     projectId |-> inp.projectId,
     inquiryId |-> NULL,
     milestoneId |-> NULL,
     comment |-> inp.comment]

(* main.py:171-173 *)
log_time_request(svc, payload) ==
    [method |-> "POST",
     url |-> <<API_BASE_URL, "/timesheet/add">>,
     headers |-> get_auth_headers(svc),
     json |-> payload]

(* a variant that reports every line under the first date of the request *)
log_time_line_first_date(inp, date) ==
    [Project |-> inp.projectId, date |-> inp.logDates[1], status |-> "done"]

(* main.py:176-178 *)
log_time_line(inp, date) == [Project |-> inp.projectId, date |-> date, status |-> "done"]

(* a variant whose except clause logs the RequestException and goes on *)
log_time_raise_swallowed(o) ==
    IF o.kind = "ok" \/ IsRequestException(o) THEN NoExc
    ELSE RaisedBy(o)

(* main.py:170-191: what leaves the try of one iteration.  A 2xx response   *)
(* raises nothing; a RequestException leaves log_time as a RuntimeError,    *)
(* any other exception as itself.                                           *)
log_time_raise(o) ==
    IF o.kind = "ok" THEN NoExc
    ELSE IF IsRequestException(o)
    THEN Exc("RuntimeError", <<"Failed to log time: ", error_detail(o)>>)
    ELSE RaisedBy(o)

(* main.py:349-360 *)
log_time_envelope(res) ==
    [success |-> TRUE, message |-> "Time logged successfully", details |-> [result |-> res]]

(* a variant with one list, the first invocation's, for every call *)
result_of_shared(i) == "a"

(* result = [] (main.py:153) is a local of the call of log_time: every      *)
(* invocation appends to, and returns, the list of its own call.            *)
result_of(i) == i

log_time_iteration(i) ==
    /\ pc[i] = "executor"
    /\ name[i] = "log_time_project"
    /\ LET svc == Service(env)
           inp == LogTimeInput_value(arguments[i])
       IN
       /\ pos[i] < Len(inp.logDates)
       /\ pos' = [pos EXCEPT ![i] = @ + 1]
       /\ IF ~IsNumeric(svc.user_id)
          THEN /\ ret' = [ret EXCEPT ![i] = call_tool_except(IntError(svc.user_id))]
               /\ pc' = [pc EXCEPT ![i] = "returned"]
               /\ UNCHANGED <<http, result>>
          ELSE \E o \in PostOutcomes :
               LET date == log_time_date(inp, pos[i])
                   req == log_time_request(svc, log_time_payload(svc, inp, date))
               IN
               /\ http' = [http EXCEPT ![i] = Append(@, [request |-> req, outcome |-> o])]
               /\ result' = [result EXCEPT ![result_of(i)] =
                               IF o.kind = "ok" THEN Append(@, log_time_line(inp, date))
                               ELSE @]
               /\ IF log_time_raise(o) = NoExc
                  THEN UNCHANGED <<pc, ret>>
                  ELSE /\ ret' = [ret EXCEPT ![i] = call_tool_except(log_time_raise(o))]
                       /\ pc' = [pc EXCEPT ![i] = "returned"]
    /\ UNCHANGED <<env, name, arguments, delivered, now_year>>

(* the loop is exhausted: log_time returns, the handler wraps the result *)
log_time_return(i) ==
    /\ pc[i] = "executor"
    /\ name[i] = "log_time_project"
    /\ pos[i] >= Len(LogTimeInput_value(arguments[i]).logDates)
    /\ ret' = [ret EXCEPT ![i] = Returns(log_time_envelope(result[result_of(i)]))]
    /\ pc' = [pc EXCEPT ![i] = "returned"]
    /\ UNCHANGED <<env, name, arguments, pos, result, http, delivered, now_year>>

-----------------------------------------------------------------------------
(* InsiderAPIService.list_projects, main.py:118-148, and the markdown the   *)
(* handler makes of it, main.py:323-337.                                    *)

MaxProjects == 2

ProjectObjects ==
    {[id |-> 10522, name |-> "Fusang SSO PoC"],
     [id |-> 7, name |-> "Internal", code |-> "INT"],
     [code |-> "SSO-POC"]}
ProjectArrays == SeqsUpTo(ProjectObjects, MaxProjects)

ListProjectsOutcomes ==
    [kind : {"ok"}, status : {200}, what : {"OK"}, body : {BodyText}, data : ProjectArrays]
    \cup [kind : {"badjson"}, status : {200}, what : {"Expecting value"}, body : {BodyText}]
    \cup FailureOutcomes

list_projects_request(svc) ==
    [method |-> "GET",
     url |-> <<API_BASE_URL, "/project/get-basic/user/">> \o svc.user_id,
     headers |-> get_auth_headers(svc)]

(* main.py:127-135: the first element without "id" or "name" raises         *)
(* KeyError; response.json() failing raises requests' JSONDecodeError, a    *)
(* RequestException that carries no response.                               *)
list_projects_raise(o) ==
    IF o.kind = "ok"
    THEN IF \E k \in DOMAIN o.data : ~Has(o.data[k], "id")
         THEN Exc("KeyError", <<"'id'">>)
         ELSE IF \E k \in DOMAIN o.data : ~Has(o.data[k], "name")
         THEN Exc("KeyError", <<"'name'">>)
         ELSE NoExc
    ELSE IF o.kind = "badjson" \/ IsRequestException(o)
    THEN Exc("RuntimeError", <<"Failed to fetch projects: ", error_detail(o)>>)
    ELSE RaisedBy(o)

list_projects_markdown(data) ==
    <<[line |-> "# Available Projects", name |-> "", id |-> 0]>>
    \o (IF data = <<>>
        THEN <<[line |-> "No projects found.", name |-> "", id |-> 0]>>
        ELSE [k \in DOMAIN data |->
                [line |-> "- **{name}** (ID: {id})", name |-> data[k].name, id |-> data[k].id]])

list_projects(i) ==
    /\ pc[i] = "executor"
    /\ name[i] = "list_projects"
    /\ \E o \in ListProjectsOutcomes :
       LET svc == Service(env) IN
       /\ http' = [http EXCEPT ![i] =
                     Append(@, [request |-> list_projects_request(svc), outcome |-> o])]
       /\ ret' = [ret EXCEPT ![i] =
                    IF list_projects_raise(o) = NoExc
                    THEN Returns([text |-> list_projects_markdown(o.data)])
                    ELSE call_tool_except(list_projects_raise(o))]
    /\ pc' = [pc EXCEPT ![i] = "returned"]
    /\ UNCHANGED <<env, name, arguments, pos, result, delivered, now_year>>

-----------------------------------------------------------------------------
(* InsiderAPIService.list_invalid_days, main.py:194-254, and the markdown   *)
(* the handler makes of it, main.py:375-407.                                *)

MaxDays == 2

(* datetime.date arithmetic: the Gregorian calendar *)
IsLeap(y) == (y % 4 = 0 /\ y % 100 # 0) \/ y % 400 = 0
DaysInMonth(y, m) ==
    IF m = 2 THEN (IF IsLeap(y) THEN 29 ELSE 28)
    ELSE IF m \in {4, 6, 9, 11} THEN 30 ELSE 31
Date(y, m, d) == [year |-> y, month |-> m, day |-> d]
(* date - datetime.timedelta(days=1) *)
DayBefore(dt) ==
    IF dt.day > 1 THEN Date(dt.year, dt.month, dt.day - 1)
    ELSE IF dt.month > 1 THEN Date(dt.year, dt.month - 1, DaysInMonth(dt.year, dt.month - 1))
    ELSE Date(dt.year - 1, 12, 31)

(* main.py:197 *)
first_date(year, month) == Date(year, month, 1)
(* a variant without the branch for December *)
last_date_same_year(year, month) ==
    DayBefore(Date(year, (month % 12) + 1, 1))

(* main.py:200-203 *)
last_date(year, month) ==
    IF month = 12 THEN DayBefore(Date(year + 1, 1, 1))
    ELSE DayBefore(Date(year, month + 1, 1))

(* strftime("%Y-%m-%d") and {month:02d}: the pieces of the string *)
Pad2(n) == IF n < 10 THEN <<"0", ToString(n)>> ELSE <<ToString(n)>>
strftime(dt) == <<ToString(dt.year), "-">> \o Pad2(dt.month) \o <<"-">> \o Pad2(dt.day)

(* main.py:209, 212 *)
list_invalid_days_request(svc, year, month) ==
    [method |-> "GET",
     url |-> <<API_BASE_URL, "/timesheet/", svc.emp_code, "/timesheetCalendar/">>
             \o strftime(first_date(year, month)) \o <<"/">>
             \o strftime(last_date(year, month)),
     headers |-> get_auth_headers(svc)]

(* Upstream day objects; logDate is the date part, which [:10] keeps, and   *)
(* the rest.  Hours are in tenths.                                          *)
DayObjects ==
    {[logDate |-> <<"2025-02-03", "T00:00:00">>, isValid |-> FALSE,
      invalidMessage |-> "Not enough hours", isNormalWorkingDay |-> TRUE,
      logTimes |-> <<[projectName |-> "P", hours |-> 30, comment |-> "c"],
                     [hours |-> 20]>>],
     [logDate |-> <<"2025-02-04", "T00:00:00">>, isValid |-> TRUE,
      logTimes |-> <<[hours |-> 80]>>],
     [logDate |-> <<"2025-02-05", "T00:00:00">>,
      logTimes |-> <<[hours |-> 10]>>],
     [logDate |-> <<"2025-02-06", "T00:00:00">>, isValid |-> FALSE, isPublicHoliday |-> TRUE],
     [logDate |-> <<"2025-02-07", "T00:00:00">>, isValid |-> FALSE,
      logTimes |-> <<[projectName |-> "Q"], [hours |-> 40]>>]}
Calendars == SeqsUpTo(DayObjects, MaxDays)

ListInvalidDaysOutcomes ==
    [kind : {"ok"}, status : {200}, what : {"OK"}, body : {BodyText}, data : Calendars]
    \cup [kind : {"badjson"}, status : {200}, what : {"Expecting value"}, body : {BodyText}]
    \cup FailureOutcomes

Get(d, key, default) == IF Has(d, key) THEN d[key] ELSE default

(* sum(log_time.get("hours", 0) for log_time in ...), main.py:223 *)
RECURSIVE total_hours(_)
total_hours(logTimes) ==
    IF logTimes = <<>> THEN 0
    ELSE Get(Head(logTimes), "hours", 0) + total_hours(Tail(logTimes))

(* a variant whose default for a missing isValid is False *)
is_invalid_day_default_false(day_data) == ~Get(day_data, "isValid", FALSE)

(* not day_data.get("isValid", True), main.py:221 *)
is_invalid_day(day_data) == ~Get(day_data, "isValid", TRUE)

(* a variant whose shortfall ignores the hours already logged *)
invalid_day_info_full_shortfall(day_data) ==
    [date |-> day_data.logDate[1],
     invalidMessage |-> Get(day_data, "invalidMessage", "No message provided"),
     currentLoggedHours |-> total_hours(Get(day_data, "logTimes", <<>>)),
     expectedHours |-> 80,
     shortfall |-> 80,
     isNormalWorkingDay |-> Get(day_data, "isNormalWorkingDay", FALSE),
     isPublicHoliday |-> Get(day_data, "isPublicHoliday", FALSE),
     logTimes |-> Get(day_data, "logTimes", <<>>)]

(* main.py:225-234 *)
invalid_day_info(day_data) ==
    [date |-> day_data.logDate[1],
     invalidMessage |-> Get(day_data, "invalidMessage", "No message provided"),
     currentLoggedHours |-> total_hours(Get(day_data, "logTimes", <<>>)),
     expectedHours |-> 80,
     shortfall |-> 80 - total_hours(Get(day_data, "logTimes", <<>>)),
     isNormalWorkingDay |-> Get(day_data, "isNormalWorkingDay", FALSE),
     isPublicHoliday |-> Get(day_data, "isPublicHoliday", FALSE),
     logTimes |-> Get(day_data, "logTimes", <<>>)]

(* main.py:219-235: the loop over calendar_data *)
RECURSIVE invalid_days(_)
invalid_days(calendar_data) ==
    IF calendar_data = <<>> THEN <<>>
    ELSE (IF is_invalid_day(Head(calendar_data))
          THEN <<invalid_day_info(Head(calendar_data))>> ELSE <<>>)
         \o invalid_days(Tail(calendar_data))

(* main.py:237-241 *)
list_invalid_days_result(year, month, calendar_data) ==
    [month |-> <<ToString(year), "-">> \o Pad2(month),
     totalInvalidDays |-> Len(invalid_days(calendar_data)),
     invalidDays |-> invalid_days(calendar_data)]

(* main.py:243-254 *)
list_invalid_days_raise(o) ==
    IF o.kind = "ok" THEN NoExc
    ELSE IF o.kind = "badjson" \/ IsRequestException(o)
    THEN Exc("RuntimeError", <<"Failed to fetch timesheet calendar: ", error_detail(o)>>)
    ELSE RaisedBy(o)

YesNo(b) == IF b THEN "Yes" ELSE "No"

(* main.py:391-395 *)
log_entry_line(log_entry) ==
    [projectName |-> Get(log_entry, "projectName", "Unknown Project"),
     hours |-> Get(log_entry, "hours", 0),
     comment |-> Get(log_entry, "comment", "No comment")]

(* main.py:381-398 *)
day_section(day) ==
    [heading |-> day.date,
     current |-> day.currentLoggedHours,
     expected |-> day.expectedHours,
     shortfall |-> day.shortfall,
     working |-> YesNo(day.isNormalWorkingDay),
     holiday |-> YesNo(day.isPublicHoliday),
     issue |-> day.invalidMessage,
     entriesHeading |-> IF day.logTimes # <<>> THEN "- **Current Log Entries:**"
                        ELSE "- **Current Log Entries:** None",
     entries |-> [k \in DOMAIN day.logTimes |-> log_entry_line(day.logTimes[k])]]

(* main.py:376-400 *)
list_invalid_days_markdown(res) ==
    [title |-> <<"# Invalid Days for ">> \o res.month,
     total |-> res.totalInvalidDays,
     days |-> [k \in DOMAIN res.invalidDays |-> day_section(res.invalidDays[k])],
     allClear |-> IF res.invalidDays # <<>> THEN ""
                  ELSE "No invalid days found for this month!"]

list_invalid_days(i) ==
    /\ pc[i] = "executor"
    /\ name[i] = "list_invalid_days"
    /\ \E o \in ListInvalidDaysOutcomes :
       LET svc == Service(env)
           year == arguments[i].year
           month == arguments[i].month
       IN
       /\ http' = [http EXCEPT ![i] =
                     Append(@, [request |-> list_invalid_days_request(svc, year, month),
                                outcome |-> o])]
       /\ ret' = [ret EXCEPT ![i] =
                    IF list_invalid_days_raise(o) = NoExc
                    THEN Returns([text |-> list_invalid_days_markdown(
                                     list_invalid_days_result(year, month, o.data))])
                    ELSE call_tool_except(list_invalid_days_raise(o))]
    /\ pc' = [pc EXCEPT ![i] = "returned"]
    /\ UNCHANGED <<env, name, arguments, pos, result, delivered, now_year>>

-----------------------------------------------------------------------------
(* The dispatch layer (the decorator of main.py:305): what the handler      *)
(* returned is delivered as a result with isError false; only an exception  *)
(* that leaves the handler is delivered with isError true.                  *)

CallToolResult(r) ==
    IF r.raised
    THEN [isError |-> TRUE, content |-> [text |-> r.exc.msg]]
    ELSE [isError |-> FALSE, content |-> r.content]

deliver(i) ==
    /\ pc[i] = "returned"
    /\ delivered' = [delivered EXCEPT ![i] = CallToolResult(ret[i])]
    /\ pc' = [pc EXCEPT ![i] = "delivered"]
    /\ UNCHANGED <<env, name, arguments, pos, result, http, ret, now_year>>

(* The response is written and the frame of the invocation is gone: the     *)
(* session (server.run, main.py:425) takes the next request.                *)
next_request(i) ==
    /\ pc[i] = "delivered"
    /\ pc' = [pc EXCEPT ![i] = "idle"]
    /\ name' = [name EXCEPT ![i] = ""]
    /\ arguments' = [arguments EXCEPT ![i] = EmptyArguments]
    /\ pos' = [pos EXCEPT ![i] = 0]
    /\ result' = [result EXCEPT ![i] = <<>>]
    /\ http' = [http EXCEPT ![i] = <<>>]
    /\ ret' = [ret EXCEPT ![i] = NoRet]
    /\ delivered' = [delivered EXCEPT ![i] = NoResult]
    /\ now_year' = [now_year EXCEPT ![i] = 0]
    /\ UNCHANGED env

-----------------------------------------------------------------------------
(* serve(), main.py:258-265: the credentials are read once, before any tool *)
(* call; a missing one is the empty string.                                 *)

Init ==
    /\ env \in [token : Tokens, userId : UserIds, empCode : EmpCodes]
    /\ pc = [i \in Invs |-> "idle"]
    /\ name = [i \in Invs |-> ""]
    /\ arguments = [i \in Invs |-> EmptyArguments]
    /\ pos = [i \in Invs |-> 0]
    /\ result = [i \in Invs |-> <<>>]
    /\ http = [i \in Invs |-> <<>>]
    /\ ret = [i \in Invs |-> NoRet]
    /\ delivered = [i \in Invs |-> NoResult]
    /\ now_year = [i \in Invs |-> 0]

Next ==
    \E i \in OneAtATime :
        \/ call_tool(i)
        \/ log_time_iteration(i)
        \/ log_time_return(i)
        \/ list_projects(i)
        \/ list_invalid_days(i)
        \/ deliver(i)
        \/ next_request(i)

Spec == Init /\ [][Next]_vars

-----------------------------------------------------------------------------
(* Two requests in flight.  The handler and the service methods are the     *)
(* same actions; the requests are drawn from fewer values, and the          *)
(* credentials are a token with either user id and either employee code.    *)

ConcurrentEnvs ==
    [token : {"test_token"}, userId : {<<"1", "8", "6">>, <<"x", "7">>},
     empCode : {"", "test.user"}]
ConcurrentArgumentsFor(n) ==
    CASE n = "log_time_project" ->
            [projectId : ProjectIds, hours : {5, 81},
             logDates : {<<"2025-05-29", "2025-05-30">>, <<"2025-05-30">>},
             hourRate : {10}, activity : {1}, comment : {""}]
            \cup {EmptyArguments}
      [] n = "list_invalid_days" -> [year : {2025}, month : {2, 13}]
      [] OTHER -> {EmptyArguments}
ConcurrentYears == {2026}

ConcurrentRequests ==
    UNION {[name : {n}, arguments : ConcurrentArgumentsFor(n), current_year : ConcurrentYears] :
             n \in ToolNames}

call_tool_concurrent(i) == call_tool_from(i, ConcurrentRequests)

InitConc ==
    /\ Init
    /\ env \in ConcurrentEnvs

NextConc ==
    \E i \in Invs :
        \/ call_tool_concurrent(i)
        \/ log_time_iteration(i)
        \/ log_time_return(i)
        \/ list_projects(i)
        \/ list_invalid_days(i)
        \/ deliver(i)
        \/ next_request(i)

SpecConc == InitConc /\ [][NextConc]_vars

-----------------------------------------------------------------------------
(* Vocabulary of the properties *)

EnvNames == {AUTH_TOKEN_ENV, USER_ID_ENV, EMP_CODE_ENV}
RegisteredTools == {"list_projects", "log_time_project", "list_invalid_days"}

(* all three credentials are present *)
CredentialsPresent == env.token # "" /\ env.userId # <<>> /\ env.empCode # ""
(* ... and the user id is the number the payload's int(user_id) needs *)
Configured == CredentialsPresent /\ IsNumeric(env.userId)

Invoked(i) == pc[i] # "idle"
Finished(i) == pc[i] \in {"returned", "delivered"}
ReturnedError(i) == Finished(i) /\ ~ret[i].raised /\ DOMAIN ret[i].content = {"error"}
ErrorMessage(i) == ret[i].content.error
ReturnedEnvelope(i) ==
    /\ Finished(i) /\ ~ret[i].raised
    /\ Has(ret[i].content, "success")
    /\ ret[i].content.success = TRUE
    /\ ret[i].content.message = "Time logged successfully"
IsValidationMessage(msg) == Len(msg) >= 3 /\ msg[1] = "validation error for "
NamesField(msg, f) == \E k \in 3..Len(msg) : msg[k] = f

(* the arguments of a log_time_project call that the data model calls valid *)
LogTimeRequestValid(args) ==
    /\ DOMAIN args = {"projectId", "hours", "logDates", "hourRate", "activity", "comment"}
    /\ args.hours >= 5 /\ args.hours <= 80
    /\ args.logDates # <<>>
    /\ args.hourRate \in {10, 20, 30, 40}
    /\ args.activity \in {1, 2}

IsLogTime(i) == Invoked(i) /\ name[i] = "log_time_project"
AllPostsSucceeded(i) == \A k \in DOMAIN http[i] : http[i][k].outcome.kind = "ok"

(* the k-th exchange is the POST of the k-th date with the request's fields *)
PostCarries(i, k) ==
    LET req == http[i][k].request
        args == arguments[i]
    IN
    /\ req.method = "POST"
    /\ req.url = <<API_BASE_URL, "/timesheet/add">>
    /\ req.json.logDate = args.logDates[k]
    /\ req.json.projectId = args.projectId
    /\ req.json.hourRate * 10 = args.hourRate
    /\ req.json.activity = args.activity
    /\ req.json.comment = args.comment

PostDatesDistinct(i) ==
    \A j, k \in DOMAIN http[i] :
        j # k => http[i][j].request.json.logDate # http[i][k].request.json.logDate

-----------------------------------------------------------------------------
(* C1 as stated: a log_time_project invocation with valid arguments whose   *)
(* POSTs all succeed makes exactly N POSTs, the k-th carrying the k-th date *)
(* and the request's projectId, hourRate, activity and comment, and no two  *)
(* POSTs carry the same logDate.  Fails: a date given twice is POSTed       *)
(* twice.                                                                   *)
C1_AsStated ==
    \A i \in Invs :
        (IsLogTime(i) /\ Finished(i) /\ Configured
         /\ LogTimeRequestValid(arguments[i]) /\ AllPostsSucceeded(i))
        => /\ Len(http[i]) = Len(arguments[i].logDates)
           /\ \A k \in DOMAIN http[i] : PostCarries(i, k)
           /\ PostDatesDistinct(i)

(* C1 amended: with the credentials present and a numeric user id, a        *)
(* log_time_project invocation with valid arguments whose POSTs all succeed *)
(* makes exactly N POSTs, the k-th carrying logDates[k] and the request's   *)
(* projectId, hourRate, activity and comment; two POSTs carry the same      *)
(* logDate exactly when logDates holds that date at both positions.  While  *)
(* the invocation runs, the POSTs made so far are those of the first dates. *)
C1_PostPerDate ==
    \A i \in Invs :
        (IsLogTime(i) /\ Configured /\ LogTimeRequestValid(arguments[i]))
        => /\ Len(http[i]) <= Len(arguments[i].logDates)
           /\ \A k \in DOMAIN http[i] : PostCarries(i, k)
           /\ \A j, k \in DOMAIN http[i] :
                (http[i][j].request.json.logDate = http[i][k].request.json.logDate)
                <=> (arguments[i].logDates[j] = arguments[i].logDates[k])
           /\ (Finished(i) /\ AllPostsSucceeded(i))
              => Len(http[i]) = Len(arguments[i].logDates)

C1_Witness ==
    \E i \in Invs :
        /\ IsLogTime(i) /\ Finished(i) /\ Configured
        /\ LogTimeRequestValid(arguments[i]) /\ AllPostsSucceeded(i)
        /\ Len(arguments[i].logDates) = 2
        /\ arguments[i].logDates[1] # arguments[i].logDates[2]
        /\ arguments[i].hourRate = 40
        /\ Len(http[i]) = 2

-----------------------------------------------------------------------------
(* C2: when the POST of the date at position k fails, the invocation has    *)
(* made exactly the POSTs of positions up to k, in input order and each     *)
(* once (none after k, no retry of k); the earlier ones succeeded and stay  *)
(* as they were (every request of the invocation is a POST to               *)
(* /timesheet/add); and the invocation has returned an error, not the       *)
(* success envelope.                                                        *)
C2_FailureAborts ==
    \A i \in Invs :
        (IsLogTime(i) /\ ~AllPostsSucceeded(i))
        => /\ Finished(i)
           /\ http[i][Len(http[i])].outcome.kind # "ok"
           /\ \A k \in 1..(Len(http[i]) - 1) : http[i][k].outcome.kind = "ok"
           /\ Len(http[i]) <= Len(arguments[i].logDates)
           /\ \A k \in DOMAIN http[i] :
                /\ http[i][k].request.method = "POST"
                /\ http[i][k].request.url = <<API_BASE_URL, "/timesheet/add">>
                /\ http[i][k].request.json.logDate = arguments[i].logDates[k]
           /\ Len(result[i]) = Len(http[i]) - 1
           /\ ReturnedError(i)
           /\ ~ReturnedEnvelope(i)

C2_Witness ==
    \E i \in Invs :
        /\ IsLogTime(i) /\ pc[i] = "delivered"
        /\ Has(arguments[i], "logDates")
        /\ Len(arguments[i].logDates) > Len(http[i])
        /\ Len(http[i]) = 2
        /\ http[i][1].outcome.kind = "ok"
        /\ http[i][2].outcome.kind = "transport"

-----------------------------------------------------------------------------
HoursOutOfRange(i) ==
    /\ IsLogTime(i) /\ Has(arguments[i], "hours")
    /\ (arguments[i].hours < 5 \/ arguments[i].hours > 80)
MonthOutOfRange(i) ==
    /\ Invoked(i) /\ name[i] = "list_invalid_days" /\ Has(arguments[i], "month")
    /\ (arguments[i].month < 1 \/ arguments[i].month > 12)
YearOutOfRange(i) ==
    /\ Invoked(i) /\ name[i] = "list_invalid_days" /\ Has(arguments[i], "year")
    /\ (arguments[i].year < 2020 \/ arguments[i].year > now_year[i] + 1)

RejectedAs(i, f) ==
    /\ Finished(i)
    /\ http[i] = <<>>
    /\ ReturnedError(i)
    /\ CredentialsPresent => (IsValidationMessage(ErrorMessage(i)) /\ NamesField(ErrorMessage(i), f))

(* C3: an invocation whose numeric argument is outside its declared range   *)
(* (hours below 0.5 or above 8; month outside 1..12; year outside           *)
(* 2020..currentYear+1) has made no HTTP request                            *)
(* and ends in an error; on a server whose credentials are present the      *)
(* error is the validation error naming that field.                         *)
C3_OutOfRangeRejected ==
    \A i \in Invs :
        /\ HoursOutOfRange(i) => RejectedAs(i, "hours")
        /\ MonthOutOfRange(i) => RejectedAs(i, "month")
        /\ YearOutOfRange(i) => RejectedAs(i, "year")

C3_Witness ==
    \E i \in Invs :
        /\ CredentialsPresent /\ pc[i] = "delivered"
        /\ HoursOutOfRange(i) /\ arguments[i].hours = 81
        /\ Has(arguments[i], "logDates") /\ Len(arguments[i].logDates) = 2
        /\ NamesField(ErrorMessage(i), "hours")

-----------------------------------------------------------------------------
OtherwiseValid(args) ==
    /\ DOMAIN args = {"projectId", "hours", "logDates", "hourRate", "activity", "comment"}
    /\ args.hours >= 5 /\ args.hours <= 80
    /\ args.logDates # <<>>
BadHourRate(i) ==
    /\ IsLogTime(i) /\ OtherwiseValid(arguments[i])
    /\ arguments[i].hourRate \notin {10, 20, 30, 40}
    /\ arguments[i].activity \in {1, 2}
BadActivity(i) ==
    /\ IsLogTime(i) /\ OtherwiseValid(arguments[i])
    /\ arguments[i].activity \notin {1, 2}
    /\ arguments[i].hourRate \in {10, 20, 30, 40}

RejectedOnReturn(i, f) ==
    /\ http[i] = <<>>
    /\ Finished(i)
       => /\ ReturnedError(i)
          /\ IsValidationMessage(ErrorMessage(i))
          /\ NamesField(ErrorMessage(i), f)

(* C4: on a server whose credentials are present, a log_time_project        *)
(* invocation whose hourRate is not one of 1, 2, 3, 4 or whose activity is  *)
(* not 1 or 2 is rejected with a validation error that names the field, and *)
(* no POST is made (stated for requests whose other fields are valid).      *)
(* Fails: any integer is accepted for both fields.                          *)
C4_CodesValidated ==
    \A i \in Invs :
        CredentialsPresent
        => /\ BadHourRate(i) => RejectedOnReturn(i, "hourRate")
           /\ BadActivity(i) => RejectedOnReturn(i, "activity")

-----------------------------------------------------------------------------
EmptyLogDates(i) ==
    IsLogTime(i) /\ Has(arguments[i], "logDates") /\ arguments[i].logDates = <<>>

(* C5: a log_time_project invocation whose logDates is the empty list makes *)
(* no HTTP call and never returns the success envelope: it ends in an       *)
(* error.  Fails: the empty list is accepted, the loop runs zero times and  *)
(* the success envelope is returned.                                        *)
C5_EmptyDatesRejected ==
    \A i \in Invs :
        EmptyLogDates(i)
        => /\ http[i] = <<>>
           /\ ~ReturnedEnvelope(i)
           /\ Finished(i) => ReturnedError(i)

-----------------------------------------------------------------------------
(* C6: while a credential is missing, every invocation, whatever its tool   *)
(* and arguments, ends in the service-initialization error without reaching *)
(* the tool lookup, the argument validation or the executor, and makes no   *)
(* HTTP request.                                                            *)
C6_MissingCredentialFailsFast ==
    \A i \in Invs :
        (~CredentialsPresent /\ Invoked(i))
        => /\ Finished(i)
           /\ http[i] = <<>>
           /\ ReturnedError(i)
           /\ ErrorMessage(i)[1] = "Service initialization failed: "

C6_Witness ==
    \E i \in Invs :
        /\ env.token # "" /\ env.userId # <<>> /\ env.empCode = ""
        /\ pc[i] = "delivered"
        /\ name[i] = "unknown_tool"
        /\ ErrorMessage(i)[1] = "Service initialization failed: "

-----------------------------------------------------------------------------
NamedVariables(msg) == {v \in EnvNames : v \in Range(msg)}

(* C7: the error of a tool call on a server with missing credentials names  *)
(* exactly the missing variables.  Fails: only the first missing one is     *)
(* named.                                                                   *)
C7_NamesEveryMissingVariable ==
    \A i \in Invs :
        (~CredentialsPresent /\ Finished(i))
        => /\ ReturnedError(i)
           /\ NamedVariables(ErrorMessage(i)) = Range(missing_vars(env))

-----------------------------------------------------------------------------
(* C8: on a server whose credentials are present, an invocation of a name   *)
(* that is none of the three tools returns an error payload whose message   *)
(* contains "Unknown tool", and makes no HTTP request.                      *)
C8_UnknownTool ==
    \A i \in Invs :
        (CredentialsPresent /\ Invoked(i) /\ name[i] \notin RegisteredTools)
        => /\ Finished(i)
           /\ http[i] = <<>>
           /\ ReturnedError(i)
           /\ "Unknown tool" \in Range(ErrorMessage(i))

C8_Witness ==
    \E i \in Invs :
        /\ CredentialsPresent /\ pc[i] = "delivered"
        /\ name[i] = "unknown_tool"
        /\ "Unknown tool" \in Range(ErrorMessage(i))
        /\ delivered[i].content = ret[i].content

-----------------------------------------------------------------------------
LastOutcome(i) == http[i][Len(http[i])].outcome

ExpectedError(i) ==
    IF ~CredentialsPresent THEN ErrorMessage(i)[1] = "Service initialization failed: "
    ELSE IF name[i] \notin RegisteredTools THEN "Unknown tool" \in Range(ErrorMessage(i))
    ELSE IF http[i] = <<>>
         THEN \/ IsValidationMessage(ErrorMessage(i))
              \/ /\ name[i] = "log_time_project" /\ ~IsNumeric(env.userId)
                 /\ ErrorMessage(i) = IntError(env.userId).msg
    ELSE IF LastOutcome(i).kind = "other" THEN ErrorMessage(i) = <<LastOutcome(i).what>>
    ELSE IF LastOutcome(i).kind = "ok" THEN ErrorMessage(i)[1] \in {"'id'", "'name'"}
    ELSE /\ Len(ErrorMessage(i)) = 2
         /\ ErrorMessage(i)[1] \in {"Failed to fetch projects: ", "Failed to log time: ",
                                    "Failed to fetch timesheet calendar: "}
         /\ ErrorMessage(i)[2] = error_detail(LastOutcome(i))

(* C9: no invocation raises out of the handler.  A finished invocation      *)
(* returned either a success payload or {"error": message}, the message     *)
(* being that of the exception: the configuration error, the validation     *)
(* error, the unknown tool, the upstream failure, or whatever other         *)
(* exception the HTTP call or the reading of its response raised.  The      *)
(* session goes on: a delivered result is followed by the next request,     *)
(* and an idle handler accepts a call.                                      *)
C9_ErrorsReturnedNotRaised ==
    \A i \in Invs :
        /\ Finished(i)
           => /\ ~ret[i].raised
              /\ ret[i].content # NoContent
              /\ Has(ret[i].content, "error")
                 => (ReturnedError(i) /\ ErrorMessage(i) # <<>> /\ ExpectedError(i))
              /\ (http[i] # <<>> /\ LastOutcome(i).kind # "ok") => ReturnedError(i)
        /\ pc[i] = "delivered" => ENABLED next_request(i)
        /\ pc[i] = "idle" => ENABLED call_tool(i)

C9_Witness ==
    \E i \in Invs :
        /\ pc[i] = "delivered"
        /\ name[i] = "log_time_project"
        /\ Len(http[i]) = 2
        /\ LastOutcome(i).kind = "other"
        /\ ret[i] = Returns([error |-> <<"API Error">>])

-----------------------------------------------------------------------------
(* C10: the result delivered to the client for a failed call (validation    *)
(* error, upstream error, unknown tool) has isError true.  Fails: the       *)
(* handler returns the error as an ordinary payload, and the dispatch layer *)
(* delivers what a handler returns with isError false.                      *)
C10_FailureIsFlagged ==
    \A i \in Invs :
        (/\ CredentialsPresent
         /\ pc[i] = "delivered"
         /\ (ret[i].raised \/ Has(ret[i].content, "error")))
        => delivered[i].isError

-----------------------------------------------------------------------------
(* The failures of an exchange that the service methods convert: a non-2xx  *)
(* response, a transport error, a 2xx body that is not JSON.                *)
UpstreamFailure(i) ==
    /\ Finished(i) /\ http[i] # <<>>
    /\ LastOutcome(i).kind \in {"status", "transport", "badjson"}
HasResponseBody(o) == o.kind = "status"
FailurePrefixes ==
    {"Failed to fetch projects: ", "Failed to log time: ", "Failed to fetch timesheet calendar: "}
Carries(i, piece) ==
    /\ ReturnedError(i)
    /\ Len(ErrorMessage(i)) = 2
    /\ ErrorMessage(i)[1] \in FailurePrefixes
    /\ ErrorMessage(i)[2] = piece

-----------------------------------------------------------------------------
(* C12: when the POST of a date fails, the error payload of the invocation  *)
(* names that date.  Fails: the message is "Failed to log time: " and the   *)
(* upstream's detail; the date is not part of it.                           *)
C12_ErrorNamesFailedDate ==
    \A i \in Invs :
        (IsLogTime(i) /\ Finished(i) /\ ~AllPostsSucceeded(i))
        => /\ ReturnedError(i)
           /\ arguments[i].logDates[Len(http[i])] \in Range(ErrorMessage(i))

-----------------------------------------------------------------------------
(* The calendar, stated apart from the arithmetic of the handler.           *)
LongMonths == {1, 3, 5, 7, 8, 10, 12}
LeapYears == {2020, 2024, 2028}
LastDayOf(y, m) ==
    IF m \in LongMonths THEN 31
    ELSE IF m # 2 THEN 30
    ELSE IF y \in LeapYears THEN 29 ELSE 28
(* two digits, zero-padded, as the pieces of the string *)
TwoDigits(n) == IF n \in 0..9 THEN <<"0", ToString(n)>> ELSE <<ToString(n)>>
IsoDate(y, m, d) == <<ToString(y), "-">> \o TwoDigits(m) \o <<"-">> \o TwoDigits(d)
CalendarUrl(first, last) ==
    <<API_BASE_URL, "/timesheet/", env.empCode, "/timesheetCalendar/">>
    \o first \o <<"/">> \o last

CalendarFetched(i) ==
    /\ Finished(i) /\ name[i] = "list_invalid_days" /\ http[i] # <<>>
CalendarRequestOf(i, y, m) ==
    /\ CalendarFetched(i) /\ arguments[i].year = y /\ arguments[i].month = m
FetchedRange(i, first, last) ==
    /\ Len(http[i]) = 1
    /\ http[i][1].request.method = "GET"
    /\ http[i][1].request.url = CalendarUrl(first, last)

(* C13: list_invalid_days issues a single GET for the calendar of the       *)
(* month: firstDate is the 1st of the month, lastDate the day before the    *)
(* 1st of the following month (29 February in a leap year, 28 otherwise;    *)
(* for month 12 the following month is January of year + 1, so the last day *)
(* is 31 December of the same year), both as YYYY-MM-DD; a valid request    *)
(* with the credentials present always reaches that GET.                    *)
C13_CalendarRange ==
    \A i \in Invs :
        /\ CalendarFetched(i)
           => LET y == arguments[i].year
                  m == arguments[i].month
              IN FetchedRange(i, IsoDate(y, m, 1), IsoDate(y, m, LastDayOf(y, m)))
        /\ CalendarRequestOf(i, 2024, 2)
           => FetchedRange(i, <<"2024", "-", "0", "2", "-", "0", "1">>,
                              <<"2024", "-", "0", "2", "-", "29">>)
        /\ CalendarRequestOf(i, 2025, 2)
           => FetchedRange(i, <<"2025", "-", "0", "2", "-", "0", "1">>,
                              <<"2025", "-", "0", "2", "-", "28">>)
        /\ CalendarRequestOf(i, 2024, 12)
           => FetchedRange(i, <<"2024", "-", "12", "-", "0", "1">>,
                              <<"2024", "-", "12", "-", "31">>)
        /\ (/\ Finished(i) /\ name[i] = "list_invalid_days" /\ CredentialsPresent
            /\ ListInvalidDaysInput_errors(arguments[i], now_year[i]) = <<>>)
           => CalendarFetched(i)

C13_Witness ==
    \E i \in Invs :
        /\ CalendarRequestOf(i, 2024, 12)
        /\ LastOutcome(i).kind = "ok"
        /\ http[i][1].request.url[Len(http[i][1].request.url)] = "31"

-----------------------------------------------------------------------------
(* The report of a calendar that was fetched: what the upstream sent and    *)
(* what the handler returned for it.                                        *)
CalendarReported(i) ==
    /\ CalendarFetched(i) /\ LastOutcome(i).kind = "ok" /\ ~ret[i].raised
    /\ Has(ret[i].content, "text")
UpstreamDays(i) == LastOutcome(i).data
Report(i) == ret[i].content.text
MarkedInvalid(day) == Has(day, "isValid") /\ day.isValid = FALSE
MarkedDays(i) == SelectSeq(UpstreamDays(i), MarkedInvalid)

-----------------------------------------------------------------------------
(* the hours of the entries of a day, an entry without hours counting 0 *)
HoursOf(day, k) == IF Has(day.logTimes[k], "hours") THEN day.logTimes[k].hours ELSE 0
RECURSIVE HoursOfFirst(_, _)
HoursOfFirst(day, n) == IF n = 0 THEN 0 ELSE HoursOfFirst(day, n - 1) + HoursOf(day, n)
LoggedHours(day) == IF Has(day, "logTimes") THEN HoursOfFirst(day, Len(day.logTimes)) ELSE 0
ExpectedHours == 80

(* C15: for each reported day, currentLoggedHours is the sum of the hours   *)
(* of its logTimes entries (an entry without hours counts 0, no logTimes is *)
(* 0), expectedHours is 8 and shortfall is 8 minus currentLoggedHours, so   *)
(* that currentLoggedHours + shortfall = 8 (hours in tenths: 80).           *)
C15_ShortfallArithmetic ==
    \A i \in Invs :
        CalendarReported(i)
        => /\ Len(Report(i).days) = Len(MarkedDays(i))
           /\ \A k \in DOMAIN Report(i).days :
                LET section == Report(i).days[k]
                    day == MarkedDays(i)[k]
                IN /\ section.current = LoggedHours(day)
                   /\ section.expected = ExpectedHours
                   /\ section.shortfall = ExpectedHours - section.current
                   /\ section.current + section.shortfall = 80

(* entries of 3 and 2 hours: 5 logged, 3 short *)
C15_Witness ==
    \E i \in Invs :
        /\ CalendarReported(i)
        /\ \E k \in DOMAIN Report(i).days :
              /\ Has(MarkedDays(i)[k], "logTimes")
              /\ Len(MarkedDays(i)[k].logTimes) = 2
              /\ Has(MarkedDays(i)[k].logTimes[1], "hours")
              /\ Has(MarkedDays(i)[k].logTimes[2], "hours")
              /\ MarkedDays(i)[k].logTimes[1].hours = 30
              /\ MarkedDays(i)[k].logTimes[2].hours = 20
              /\ Report(i).days[k].current = 50
              /\ Report(i).days[k].shortfall = 30

-----------------------------------------------------------------------------
(* C16: the envelope {success: true, message: "Time logged successfully"}   *)
(* is returned only after the POST of every date of logDates has completed  *)
(* successfully, and its details.result holds exactly one line per date, in *)
(* input order, the i-th naming the projectId and the i-th date with status *)
(* done.                                                                    *)
C16_EnvelopeAfterAllPosts ==
    \A i \in Invs :
        ReturnedEnvelope(i)
        => LET dates == arguments[i].logDates
               lines == ret[i].content.details.result
           IN /\ IsLogTime(i)
              /\ Len(http[i]) = Len(dates)
              /\ \A k \in DOMAIN http[i] :
                    /\ http[i][k].outcome.kind = "ok"
                    /\ http[i][k].request.method = "POST"
                    /\ http[i][k].request.json.logDate = dates[k]
              /\ Len(lines) = Len(dates)
              /\ \A k \in DOMAIN dates :
                    lines[k] = [Project |-> arguments[i].projectId,
                                date |-> dates[k], status |-> "done"]

C16_Witness ==
    \E i \in Invs :
        /\ ReturnedEnvelope(i)
        /\ arguments[i].logDates = <<"2025-05-29", "2025-05-30">>
        /\ Len(http[i]) = 2
        /\ ret[i].content.details.result[2].date = "2025-05-30"

-----------------------------------------------------------------------------
(* What an invocation does when it runs alone: the requests it sends and    *)
(* the payload it returns, as a function of the credentials, its own        *)
(* request and the upstream's answers to its own requests.                  *)
Outcomes(i) == [k \in DOMAIN http[i] |-> http[i][k].outcome]
RequestsSent(i) == [k \in DOMAIN http[i] |-> http[i][k].request]

AloneLogTime(e, args, outs) ==
    LET svc == Service(e)
        inp == LogTimeInput_value(args)
        n == Len(outs)
    IN IF inp.logDates = <<>>
       THEN [requests |-> <<>>, ret |-> Returns(log_time_envelope(<<>>))]
       ELSE IF ~IsNumeric(svc.user_id)
       THEN [requests |-> <<>>, ret |-> call_tool_except(IntError(svc.user_id))]
       ELSE [requests |->
                [k \in 1..n |->
                    log_time_request(svc, log_time_payload(svc, inp, inp.logDates[k]))],
             ret |->
                IF n = 0 THEN NoRet
                ELSE IF log_time_raise(outs[n]) # NoExc
                THEN call_tool_except(log_time_raise(outs[n]))
                ELSE Returns(log_time_envelope(
                        [k \in 1..n |-> log_time_line(inp, inp.logDates[k])]))]

AloneListProjects(e, outs) ==
    [requests |-> <<list_projects_request(Service(e))>>,
     ret |-> IF outs = <<>> THEN NoRet
             ELSE IF list_projects_raise(outs[1]) = NoExc
             THEN Returns([text |-> list_projects_markdown(outs[1].data)])
             ELSE call_tool_except(list_projects_raise(outs[1]))]

AloneListInvalidDays(e, args, outs) ==
    [requests |-> <<list_invalid_days_request(Service(e), args.year, args.month)>>,
     ret |-> IF outs = <<>> THEN NoRet
             ELSE IF list_invalid_days_raise(outs[1]) = NoExc
             THEN Returns([text |-> list_invalid_days_markdown(
                              list_invalid_days_result(args.year, args.month, outs[1].data))])
             ELSE call_tool_except(list_invalid_days_raise(outs[1]))]

Alone(e, n, args, year, outs) ==
    LET raised == call_tool_prefix(e, year, n, args) IN
    IF raised # NoExc THEN [requests |-> <<>>, ret |-> call_tool_except(raised)]
    ELSE IF n = "log_time_project" THEN AloneLogTime(e, args, outs)
    ELSE IF n = "list_projects" THEN AloneListProjects(e, outs)
    ELSE AloneListInvalidDays(e, args, outs)

(* the answers an invocation that ran alone would have consumed: every      *)
(* request but the last was answered 2xx, and the loop stopped at a failure *)
(* or at the end of logDates                                                *)
AnswersConsumed(i) ==
    LET outs == Outcomes(i) IN
    /\ \A k \in 1..(Len(outs) - 1) : outs[k].kind = "ok"
    /\ (IsLogTime(i) /\ ~ReturnedError(i) /\ Has(arguments[i], "logDates"))
       => Len(outs) = Len(arguments[i].logDates)

SameAsAlone(i) ==
    LET alone == Alone(env, name[i], arguments[i], now_year[i], Outcomes(i)) IN
    /\ AnswersConsumed(i)
    /\ RequestsSent(i) = alone.requests
    /\ ret[i] = alone.ret
    /\ pc[i] = "delivered" => delivered[i] = CallToolResult(alone.ret)

(* a step of one invocation: the others' frames are as they were *)
FrameUntouched(j) ==
    /\ name'[j] = name[j] /\ arguments'[j] = arguments[j] /\ now_year'[j] = now_year[j]
    /\ result'[j] = result[j] /\ http'[j] = http[j]
    /\ ret'[j] = ret[j] /\ delivered'[j] = delivered[j]
NoInterference ==
    /\ env' = env
    /\ \A j \in Invs : (pc'[j] = pc[j] /\ pos'[j] = pos[j]) => FrameUntouched(j)

(* C17: the handler keeps no shared mutable state.  The credentials read at *)
(* startup are never changed by an invocation, whatever its outcome; and    *)
(* under every interleaving of two concurrent invocations, the requests an  *)
(* invocation has sent and the payload it returned are those it sends and   *)
(* returns alone against the same upstream answers, and no step of one      *)
(* invocation changes anything of the other.                                *)
C17_NoSharedState ==
    /\ [](\A i \in Invs : Finished(i) => SameAsAlone(i))
    /\ [][NoInterference]_vars

(* both invocations are inside the loop of log_time with one POST made each *)
(* and one to go                                                            *)
C17_Witness ==
    /\ pc["a"] = "executor" /\ pc["b"] = "executor"
    /\ name["a"] = "log_time_project" /\ name["b"] = "log_time_project"
    /\ arguments["a"].projectId # arguments["b"].projectId
    /\ Len(arguments["a"].logDates) = 2 /\ Len(arguments["b"].logDates) = 2
    /\ Len(http["a"]) = 1 /\ Len(http["b"]) = 1
    /\ result["a"] # result["b"]

====
